---- MODULE Spec2Model ----
(***************************************************************************)
(* A model of two programs of the repository:                              *)
(*   - the volume commands of the administrative CLI (src/cli/cmd/vol.go): *)
(*     create, set, delete, transfer and add-dp, each one invocation that  *)
(*     issues a short sequence of remote calls to the master;              *)
(*   - the node process supervisor (src/cmd/cmd.go): main, the signal      *)
(*     goroutine started by interceptSignal, and the Server it drives.     *)
(* SpecVol is the specification of the CLI, SpecMain the one of the        *)
(* supervisor.                                                             *)
(***************************************************************************)
EXTENDS Integers, Sequences, FiniteSets, TLC

VARIABLES
    master,     \* the volume as the master (control plane) holds it, None if it holds none
    inv         \* the CLI invocations: invocation id -> its state

VARIABLES
    pc,             \* where main() is
    role,           \* cfg.GetString(ConfigKeyRole)
    server,         \* "nil", or the module of the Server main constructed
    registered,     \* signal.Notify has been called on sigC
    sigC,           \* number of signals buffered in sigC (capacity 1)
    sigPc,          \* where the goroutine of interceptSignal is
    startState,     \* server.Start: "notcalled", "inflight", "ok", "failed", "panicked"
    stopped,        \* the Server has fully stopped (what Sync waits for)
    syncCalls,      \* number of calls of server.Sync
    shutdownCalls,  \* number of calls of server.Shutdown
    shutdownAt,     \* startState at the moment Shutdown was first invoked, or "never"
    shutdownBy,     \* the execution context that invoked Shutdown, or "none"
    signals,        \* number of signals the environment has delivered
    exited,         \* the process has terminated
    exitCode,       \* its exit code, once exited
    recovered,      \* number of times the deferred recover of main caught a panic
    flushed,        \* number of calls of log.LogFlush
    log             \* the messages logged or printed by the supervisor

cliVars == <<master, inv>>
supVars == <<pc, role, server, registered, sigC, sigPc, startState, stopped,
             syncCalls, shutdownCalls, shutdownAt, shutdownBy, signals,
             exited, exitCode, recovered, flushed, log>>
vars == <<master, inv, pc, role, server, registered, sigC, sigPc, startState,
          stopped, syncCalls, shutdownCalls, shutdownAt, shutdownBy, signals,
          exited, exitCode, recovered, flushed, log>>

(***************************************************************************)
(* Bounds of the model.                                                    *)
(***************************************************************************)
\* words on the line the operator types at a confirmation prompt
MaxLineWords == 2
\* characters of the NUMBER argument of add-dp
MaxNumberLen == 2
\* signals the environment delivers to the supervisor
MaxSignals == 2

(***************************************************************************)
(* Values.                                                                 *)
(***************************************************************************)
None == <<>>
Some(x) == <<x>>
Get(o) == o[1]

\* nil error
NoErr == ""

Words == {"yes", "y", "no"}
Lines == UNION {[1..n -> Words] : n \in 0..MaxLineWords}

NumChars == {"-", "+", "0", "2", "3", "x"}
Numbers == UNION {[1..n -> NumChars] : n \in 0..MaxNumberLen}

Owners == {"u1", "u2"}
UserIDs == {"u2", "u3"}

\* the literals of the boolean flags of set: "" is the flag's default
BoolLits == {"", "true", "F", "maybe"}
OptCapacityValues == {0, 80}
OptReplicasValues == {0, 2, 257}
OptZoneNameValues == {"", "z2"}

volumeName == "v1"

\* the ids of the CLI invocations; SpecVol runs one invocation, with id 1
Procs == {1, 2}

\* the volumes the master may hold when a command starts
Volumes ==
    { [Name |-> volumeName, Owner |-> o, Capacity |-> 50, DpReplicaNum |-> 3,
       FollowerRead |-> TRUE, Authenticate |-> FALSE, EnableToken |-> TRUE,
       AutoRepair |-> FALSE, ZoneName |-> "default", Status |-> s] :
      o \in Owners, s \in {0, 1} }

(***************************************************************************)
(* Library functions, as the code uses them.                               *)
(***************************************************************************)
\* fmt.Scanln(&userConfirm): the first space-separated word of the line, ""
\* for an empty line (the error of a longer line is dropped by the caller)
Scanln(line) == IF line = <<>> THEN "" ELSE line[1]

\* strconv.ParseBool
ParseBoolTrue == {"1", "t", "T", "TRUE", "true", "True"}
ParseBoolFalse == {"0", "f", "F", "FALSE", "false", "False"}
ParseBoolErr(str) ==
    IF str \in ParseBoolTrue \cup ParseBoolFalse THEN NoErr ELSE "invalid syntax"
ParseBool(str) == str \in ParseBoolTrue

\* strconv.ParseInt(number, 10, 64) on a string of characters
DigitVal == [c \in {"0", "1", "2", "3", "4", "5", "6", "7", "8", "9"} |->
    CASE c = "0" -> 0 [] c = "1" -> 1 [] c = "2" -> 2 [] c = "3" -> 3
      [] c = "4" -> 4 [] c = "5" -> 5 [] c = "6" -> 6 [] c = "7" -> 7
      [] c = "8" -> 8 [] c = "9" -> 9]
RECURSIVE Decimal(_)
Decimal(s) ==
    IF s = <<>> THEN 0
    ELSE 10 * Decimal(SubSeq(s, 1, Len(s) - 1)) + DigitVal[s[Len(s)]]
Unsigned(s) == IF s # <<>> /\ s[1] \in {"+", "-"} THEN Tail(s) ELSE s
ParseIntErr(s) ==
    IF Unsigned(s) = <<>> \/ \E k \in 1..Len(Unsigned(s)) : Unsigned(s)[k] \notin DOMAIN DigitVal
    THEN "invalid syntax" ELSE NoErr
ParseInt(s) ==
    IF ParseIntErr(s) # NoErr THEN 0
    ELSE IF s[1] = "-" THEN 0 - Decimal(Unsigned(s)) ELSE Decimal(Unsigned(s))

\* uint8(x) of an int
uint8(x) == x % (2 ^ 8)

\* calcAuthKey: the lower-case hex MD5 of the key, a function of the key alone
calcAuthKey(key) == <<"md5hex", key>>

(***************************************************************************)
(* The master, as the commands see it (its engine is not part of the       *)
(* repository's command-line client): a call is accepted or rejected, and  *)
(* an accepted mutation is applied to the volume the master holds.         *)
(***************************************************************************)
MasterCreate(c) ==
    Some([Name |-> c.name, Owner |-> c.owner, Capacity |-> c.capacity,
          DpReplicaNum |-> uint8(c.replicas), FollowerRead |-> c.followerRead,
          Authenticate |-> FALSE, EnableToken |-> FALSE,
          AutoRepair |-> c.autoRepair, ZoneName |-> c.zoneName, Status |-> 0])
MasterUpdate(m, c) ==
    Some([Get(m) EXCEPT !.Capacity = c.capacity, !.DpReplicaNum = uint8(c.replicas),
          !.FollowerRead = c.followerRead, !.Authenticate = c.authenticate,
          !.EnableToken = c.enableToken, !.AutoRepair = c.autoRepair,
          !.ZoneName = c.zoneName])
MasterTransfer(m, c) == Some([Get(m) EXCEPT !.Owner = c.param.UserDst])
\* GetVolumeSimpleInfo: the volume the master holds, or nil with an error
GetVolumeSimpleInfo(m, ok) == IF ok THEN m ELSE None
\* the outcomes a call on the volume can have: rejected, or accepted if it exists
OnVolume == IF master = None THEN {FALSE} ELSE BOOLEAN
\* the outcomes of a creation: rejected, or accepted if the name is free
OnFreeName == IF master = None THEN BOOLEAN ELSE {FALSE}

(***************************************************************************)
(* One invocation of a volume command.                                     *)
(***************************************************************************)
NewInv(cmd, opt) ==
    [cmd |-> cmd, opt |-> opt, pc |-> "start",
     vv |-> None,            \* vv / svv / volSimpleView: the working copy, None for nil
     fetched |-> None,       \* the snapshot as GetVolumeSimpleInfo returned it
     userInfo |-> None,
     err |-> NoErr, isChange |-> FALSE,
     prompted |-> FALSE, userConfirm |-> "",
     confirmString |-> <<>>,
     calls |-> <<>>,         \* the remote calls issued, in order
     out |-> <<>>,           \* what was written to stdout and stderr, in order
     exitCode |-> 0]

stdout(r, msg) == [r EXCEPT !.out = Append(@, <<"stdout", msg>>)]
\* errout is defined outside vol.go: it writes the message to the error
\* stream; the commands that exit after it call os.Exit(1) themselves
errout(r, msg) == [r EXCEPT !.out = Append(@, <<"stderr", msg>>)]
formatEnabledDisabled(b) == IF b THEN "Enabled" ELSE "Disabled"
Call(r, c) == [r EXCEPT !.calls = Append(@, c)]
\* Run returns: the command is over
Return(r) == [r EXCEPT !.pc = "done"]
\* a runtime panic (nil pointer dereference) ends the process with status 2
Panic(r) == [r EXCEPT !.pc = "panic", !.exitCode = 2]
\* the invocation p moves to r; the supervisor is another program
Upd(p, r) == inv' = [inv EXCEPT ![p] = r] /\ UNCHANGED supVars
\* the operator's answer at a prompt
Prompt(r, line) == [r EXCEPT !.prompted = TRUE, !.userConfirm = Scanln(line)]

(***************************************************************************)
(* volume create                                                           *)
(***************************************************************************)
CreateOpts ==
    [userID : Owners, optMPCount : {3}, optDPSize : {120}, optCapacity : {10, 50},
     optReplicas : {3}, optFollowerRead : {TRUE}, optAutoRepair : {FALSE},
     optZoneName : {"default"}, optYes : BOOLEAN]

\* CreateAccepts with the test of delete
CreateAcceptsOnlyYes(userConfirm) == ~(userConfirm # "yes")
CreateAccepts(userConfirm) == ~(userConfirm # "yes" /\ Len(userConfirm) # 0)

CreateConfirm(p) ==
    LET i == inv[p] IN
    /\ p \in DOMAIN inv /\ i.cmd = "create" /\ i.pc = "start"
    /\ IF i.opt.optYes
       THEN Upd(p, [i EXCEPT !.pc = "create"])
       ELSE \E line \in Lines :
            LET r == Prompt(stdout(i, "Confirm (yes/no)[yes]: "), line) IN
            IF CreateAccepts(r.userConfirm)
            THEN Upd(p, [r EXCEPT !.pc = "create"])
            ELSE Upd(p, Return(stdout(r, "Abort by user.")))
    /\ UNCHANGED master

CreateCall(p) ==
    LET i == inv[p] IN
    /\ p \in DOMAIN inv /\ i.cmd = "create" /\ i.pc = "create"
    /\ \E ok \in OnFreeName :
       LET c == [api |-> "CreateVolume", name |-> volumeName, owner |-> i.opt.userID,
                 mpCount |-> i.opt.optMPCount, dpSize |-> i.opt.optDPSize,
                 capacity |-> i.opt.optCapacity, replicas |-> i.opt.optReplicas,
                 followerRead |-> i.opt.optFollowerRead,
                 autoRepair |-> i.opt.optAutoRepair, zoneName |-> i.opt.optZoneName,
                 ok |-> ok]
           r1 == Call(i, c)
           r2 == IF ok THEN r1
                 ELSE errout([r1 EXCEPT !.err = "remote error"], "Create volume failed case")
       IN /\ Upd(p, Return(stdout(r2, "Create volume success.")))
          /\ master' = IF ok THEN MasterCreate(c) ELSE master

(***************************************************************************)
(* volume set                                                              *)
(***************************************************************************)
SetOpts ==
    [optCapacity : OptCapacityValues, optReplicas : OptReplicasValues,
     optFollowerRead : BoolLits, optAuthenticate : BoolLits,
     optEnableToken : BoolLits, optAutoRepair : BoolLits,
     optZoneName : OptZoneNameValues, optYes : BOOLEAN]

\* SetStart with isChange initialised to true
SetStartChanged(vv) ==
    [vv |-> vv, isChange |-> TRUE, err |-> NoErr, ret |-> FALSE,
     confirmString |-> <<"Volume configuration changes:", <<"Name", vv.Name>>>>]

\* The state of the closure between the fetch and the checks that follow the
\* overrides: the working copy, isChange, err, the summary, and whether one
\* of the blocks has returned.
SetStart(vv) ==
    [vv |-> vv, isChange |-> FALSE, err |-> NoErr, ret |-> FALSE,
     confirmString |-> <<"Volume configuration changes:", <<"Name", vv.Name>>>>]

\* SetCapacity with the test of the flag left out
SetCapacityAlways(s, o) ==
    [s EXCEPT !.isChange = TRUE,
              !.confirmString = Append(@, <<"Capacity", s.vv.Capacity, o.optCapacity>>),
              !.vv.Capacity = o.optCapacity]

SetCapacity(s, o) ==
    IF o.optCapacity > 0
    THEN [s EXCEPT !.isChange = TRUE,
                   !.confirmString = Append(@, <<"Capacity", s.vv.Capacity, o.optCapacity>>),
                   !.vv.Capacity = o.optCapacity]
    ELSE [s EXCEPT !.confirmString = Append(@, <<"Capacity", s.vv.Capacity>>)]

SetReplicas(s, o) ==
    IF o.optReplicas > 0
    THEN [s EXCEPT !.isChange = TRUE,
                   !.confirmString = Append(@, <<"Replicas", s.vv.DpReplicaNum, o.optReplicas>>),
                   !.vv.DpReplicaNum = uint8(o.optReplicas)]
    ELSE [s EXCEPT !.confirmString = Append(@, <<"Replicas", s.vv.DpReplicaNum>>)]

\* SetBool with the error of ParseBool dropped
SetBoolIgnoreErr(s, str, field) ==
    IF s.ret THEN s
    ELSE IF str # ""
    THEN [s EXCEPT !.isChange = TRUE,
                   !.confirmString = Append(@, <<field, formatEnabledDisabled(s.vv[field]),
                                                 formatEnabledDisabled(ParseBool(str))>>),
                   !.vv[field] = ParseBool(str)]
    ELSE [s EXCEPT !.confirmString = Append(@, <<field, formatEnabledDisabled(s.vv[field])>>)]

\* one of the four blocks of a boolean flag: str is the flag, field the
\* field of the volume it sets
SetBool(s, str, field) ==
    IF s.ret THEN s
    ELSE IF str # ""
    THEN IF ParseBoolErr(str) # NoErr
         THEN [s EXCEPT !.isChange = TRUE, !.err = ParseBoolErr(str), !.ret = TRUE]
         ELSE [s EXCEPT !.isChange = TRUE,
                        !.confirmString = Append(@, <<field, formatEnabledDisabled(s.vv[field]),
                                                      formatEnabledDisabled(ParseBool(str))>>),
                        !.vv[field] = ParseBool(str)]
    ELSE [s EXCEPT !.confirmString = Append(@, <<field, formatEnabledDisabled(s.vv[field])>>)]

SetFollowerRead(s, o) == SetBool(s, o.optFollowerRead, "FollowerRead")
SetAuthenticate(s, o) == SetBool(s, o.optAuthenticate, "Authenticate")
SetEnableToken(s, o) == SetBool(s, o.optEnableToken, "EnableToken")
SetAutoRepair(s, o) == SetBool(s, o.optAutoRepair, "AutoRepair")

SetZoneName(s, o) ==
    IF s.ret THEN s
    ELSE IF "" # o.optZoneName
    THEN [s EXCEPT !.isChange = TRUE,
                   !.confirmString = Append(@, <<"ZoneName", s.vv.ZoneName, o.optZoneName>>),
                   !.vv.ZoneName = o.optZoneName]
    ELSE [s EXCEPT !.confirmString = Append(@, <<"ZoneName", s.vv.ZoneName>>)]

\* SetOverrides with the zone block moved before the four boolean blocks
SetOverridesZoneFirst(vv, o) ==
    SetAutoRepair(SetEnableToken(SetAuthenticate(SetFollowerRead(SetZoneName(
        SetReplicas(SetCapacity(SetStart(vv), o), o), o), o), o), o), o)

\* the seven blocks in the order of the code
SetOverrides(vv, o) ==
    SetZoneName(SetAutoRepair(SetEnableToken(SetAuthenticate(SetFollowerRead(
        SetReplicas(SetCapacity(SetStart(vv), o), o), o), o), o), o), o)

SetAccepts(userConfirm) == ~(userConfirm # "yes" /\ Len(userConfirm) # 0)

\* the deferred function of the command: the error, if any, is written out
SetDefer(r) == IF r.err # NoErr THEN errout(r, "Error") ELSE r

\* SetPayload with the key derived from the name of the volume
SetPayloadKeyOfName(vv, ok) ==
    [api |-> "UpdateVolume", name |-> vv.Name, capacity |-> vv.Capacity,
     replicas |-> vv.DpReplicaNum, followerRead |-> vv.FollowerRead,
     authenticate |-> vv.Authenticate, enableToken |-> vv.EnableToken,
     autoRepair |-> vv.AutoRepair, authKey |-> calcAuthKey(vv.Name),
     zoneName |-> vv.ZoneName, ok |-> ok]

\* the payload of UpdateVolume
SetPayload(vv, ok) ==
    [api |-> "UpdateVolume", name |-> vv.Name, capacity |-> vv.Capacity,
     replicas |-> vv.DpReplicaNum, followerRead |-> vv.FollowerRead,
     authenticate |-> vv.Authenticate, enableToken |-> vv.EnableToken,
     autoRepair |-> vv.AutoRepair, authKey |-> calcAuthKey(vv.Owner),
     zoneName |-> vv.ZoneName, ok |-> ok]

SetFetch(p) ==
    LET i == inv[p] IN
    /\ p \in DOMAIN inv /\ i.cmd = "set" /\ i.pc = "start"
    /\ \E ok \in OnVolume :
       LET r == Call(i, [api |-> "GetVolumeSimpleInfo", name |-> volumeName, ok |-> ok]) IN
       IF ok
       THEN Upd(p, [r EXCEPT !.vv = GetVolumeSimpleInfo(master, ok),
                             !.fetched = GetVolumeSimpleInfo(master, ok), !.pc = "overrides"])
       ELSE Upd(p, Return(SetDefer([r EXCEPT !.err = "remote error"])))
    /\ UNCHANGED master

SetDiff(p) ==
    LET i == inv[p]
        s == SetOverrides(Get(i.vv), i.opt)
        r == [i EXCEPT !.vv = Some(s.vv), !.isChange = s.isChange, !.err = s.err,
                       !.confirmString = s.confirmString]
    IN
    /\ p \in DOMAIN inv /\ i.cmd = "set" /\ i.pc = "overrides"
    /\ IF s.err # NoErr THEN Upd(p, Return(SetDefer(r)))
       ELSE IF ~s.isChange THEN Upd(p, Return(stdout(r, "No changes has been set.")))
       ELSE Upd(p, [r EXCEPT !.pc = "confirm"])
    /\ UNCHANGED master

SetConfirm(p) ==
    LET i == inv[p] IN
    /\ p \in DOMAIN inv /\ i.cmd = "set" /\ i.pc = "confirm"
    /\ IF i.opt.optYes
       THEN Upd(p, [i EXCEPT !.pc = "update"])
       ELSE \E line \in Lines :
            LET r == Prompt(stdout(stdout(i, Head(i.confirmString)), "Confirm (yes/no)[yes]: "), line) IN
            IF SetAccepts(r.userConfirm)
            THEN Upd(p, [r EXCEPT !.pc = "update"])
            ELSE Upd(p, Return(SetDefer([r EXCEPT !.err = "Abort by user."])))
    /\ UNCHANGED master

\* SetUpdate with the update issued only if the volume still is as fetched
SetUpdateChecked(p) ==
    LET i == inv[p] IN
    /\ p \in DOMAIN inv /\ i.cmd = "set" /\ i.pc = "update"
    /\ IF master # i.fetched
       THEN /\ Upd(p, Return(SetDefer([i EXCEPT !.err = "conflict"])))
            /\ UNCHANGED master
       ELSE \E ok \in OnVolume :
            LET c == SetPayload(Get(i.vv), ok)
                r == Call(i, c)
            IN /\ IF ok
                  THEN Upd(p, Return(SetDefer(stdout(r, "Volume configuration has been set successfully."))))
                  ELSE Upd(p, Return(SetDefer([r EXCEPT !.err = "remote error"])))
               /\ master' = IF ok THEN MasterUpdate(master, c) ELSE master

SetUpdate(p) ==
    LET i == inv[p] IN
    /\ p \in DOMAIN inv /\ i.cmd = "set" /\ i.pc = "update"
    /\ \E ok \in OnVolume :
       LET c == SetPayload(Get(i.vv), ok)
           r == Call(i, c)
       IN /\ IF ok
             THEN Upd(p, Return(SetDefer(stdout(r, "Volume configuration has been set successfully."))))
             ELSE Upd(p, Return(SetDefer([r EXCEPT !.err = "remote error"])))
          /\ master' = IF ok THEN MasterUpdate(master, c) ELSE master

(***************************************************************************)
(* volume delete                                                           *)
(***************************************************************************)
DeleteOpts == [optYes : BOOLEAN]

\* DeleteAccepts with the test of create and set
DeleteAcceptsEmpty(userConfirm) == ~(userConfirm # "yes" /\ Len(userConfirm) # 0)
DeleteAccepts(userConfirm) == ~(userConfirm # "yes")

DeleteConfirm(p) ==
    LET i == inv[p] IN
    /\ p \in DOMAIN inv /\ i.cmd = "delete" /\ i.pc = "start"
    /\ IF i.opt.optYes
       THEN Upd(p, [i EXCEPT !.pc = "fetch"])
       ELSE \E line \in Lines :
            LET r == Prompt(stdout(i, "Delete volume (yes/no)[no]:"), line) IN
            IF DeleteAccepts(r.userConfirm)
            THEN Upd(p, [r EXCEPT !.pc = "fetch"])
            ELSE Upd(p, Return(stdout(r, "Abort by user.")))
    /\ UNCHANGED master

\* a failed fetch is written out and leaves svv nil; the command goes on
DeleteFetch(p) ==
    LET i == inv[p] IN
    /\ p \in DOMAIN inv /\ i.cmd = "delete" /\ i.pc = "fetch"
    /\ \E ok \in OnVolume :
       LET r == Call(i, [api |-> "GetVolumeSimpleInfo", name |-> volumeName, ok |-> ok]) IN
       LET r1 == [r EXCEPT !.vv = GetVolumeSimpleInfo(master, ok),
                           !.fetched = GetVolumeSimpleInfo(master, ok), !.pc = "delete"]
       IN IF ok THEN Upd(p, r1)
          ELSE Upd(p, errout([r1 EXCEPT !.err = "remote error"], "Delete volume failed"))
    /\ UNCHANGED master

\* svv.Owner of a nil svv is a nil pointer dereference
DeleteCall(p) ==
    LET i == inv[p] IN
    /\ p \in DOMAIN inv /\ i.cmd = "delete" /\ i.pc = "delete"
    /\ IF i.vv = None
       THEN Upd(p, Panic(i)) /\ UNCHANGED master
       ELSE \E ok \in OnVolume :
            LET c == [api |-> "DeleteVolume", name |-> volumeName,
                      authKey |-> calcAuthKey(Get(i.vv).Owner), ok |-> ok]
                r1 == Call(i, c)
                r2 == IF ok THEN [r1 EXCEPT !.err = NoErr]
                      ELSE errout([r1 EXCEPT !.err = "remote error"], "Delete volume failed")
            IN /\ Upd(p, Return(stdout(r2, "Delete volume success.")))
               /\ master' = IF ok THEN None ELSE master

(***************************************************************************)
(* volume transfer                                                         *)
(***************************************************************************)
TransferOpts == [userID : UserIDs, optYes : BOOLEAN, optForce : BOOLEAN]

TransferAccepts(confirm) == ~(confirm # "yes")

\* the deferred function of the command
TransferDefer(r) == IF r.err # NoErr THEN errout(r, "Transfer volume failed") ELSE r

TransferConfirm(p) ==
    LET i == inv[p] IN
    /\ p \in DOMAIN inv /\ i.cmd = "transfer" /\ i.pc = "start"
    /\ IF i.opt.optYes
       THEN Upd(p, [i EXCEPT !.pc = "fetch"])
       ELSE \E line \in Lines :
            LET r == Prompt(stdout(i, "Transfer volume to user (yes/no)[no]:"), line) IN
            IF TransferAccepts(r.userConfirm)
            THEN Upd(p, [r EXCEPT !.pc = "fetch"])
            ELSE Upd(p, Return(TransferDefer(stdout(r, "Abort by user."))))
    /\ UNCHANGED master

\* TransferStatusErr with the status never checked
TransferStatusErrNone(volSimpleView) == NoErr

\* the status of the fetched volume, checked before the user is looked up
TransferStatusErr(volSimpleView) ==
    IF volSimpleView.Status # 0 THEN "volume status abnormal" ELSE NoErr

TransferFetch(p) ==
    LET i == inv[p] IN
    /\ p \in DOMAIN inv /\ i.cmd = "transfer" /\ i.pc = "fetch"
    /\ \E ok \in OnVolume :
       LET r == Call(i, [api |-> "GetVolumeSimpleInfo", name |-> volumeName, ok |-> ok]) IN
       IF ~ok
       THEN Upd(p, Return(TransferDefer([r EXCEPT !.err = "remote error"])))
       ELSE LET r1 == [r EXCEPT !.vv = GetVolumeSimpleInfo(master, ok),
                                !.fetched = GetVolumeSimpleInfo(master, ok)] IN
            IF TransferStatusErr(Get(master)) # NoErr
            THEN Upd(p, Return(TransferDefer([r1 EXCEPT !.err = TransferStatusErr(Get(master))])))
            ELSE Upd(p, [r1 EXCEPT !.pc = "lookup"])
    /\ UNCHANGED master

\* the user the master answers GetUserInfo with, if it knows the user
TransferLookup(p) ==
    LET i == inv[p] IN
    /\ p \in DOMAIN inv /\ i.cmd = "transfer" /\ i.pc = "lookup"
    /\ \E ok \in BOOLEAN, uid \in UserIDs :
       LET r == Call(i, [api |-> "GetUserInfo", userID |-> i.opt.userID, ok |-> ok]) IN
       IF ok
       THEN Upd(p, [r EXCEPT !.userInfo = Some([UserID |-> uid]), !.pc = "transfer"])
       ELSE /\ uid = i.opt.userID
            /\ Upd(p, Return(TransferDefer([r EXCEPT !.err = "remote error"])))
    /\ UNCHANGED master

\* TransferParam with the source and the destination exchanged
TransferParamSwapped(volume, volSimpleView, userInfo, optForce) ==
    [Volume |-> volume, UserSrc |-> userInfo.UserID,
     UserDst |-> volSimpleView.Owner, Force |-> optForce]

TransferParam(volume, volSimpleView, userInfo, optForce) ==
    [Volume |-> volume, UserSrc |-> volSimpleView.Owner,
     UserDst |-> userInfo.UserID, Force |-> optForce]

TransferCall(p) ==
    LET i == inv[p] IN
    /\ p \in DOMAIN inv /\ i.cmd = "transfer" /\ i.pc = "transfer"
    /\ \E ok \in OnVolume :
       LET c == [api |-> "TransferVol",
                 param |-> TransferParam(volumeName, Get(i.vv), Get(i.userInfo), i.opt.optForce),
                 ok |-> ok]
           r == Call(i, c)
       IN /\ Upd(p, Return(TransferDefer([r EXCEPT !.err = IF ok THEN NoErr ELSE "remote error"])))
          /\ master' = IF ok THEN MasterTransfer(master, c) ELSE master

(***************************************************************************)
(* volume add-dp                                                           *)
(***************************************************************************)
AddDPOpts == [number : Numbers]

\* int(count) of an int64: the same value, int being 64 bits wide on the
\* platforms the repository is built for
IntOfInt64(count) == count

\* AddDPCountErr without the test count < 1
AddDPCountErrNoMin(number) == ParseIntErr(number)

\* the error of the count, before any call: a failed parse, or a count < 1
AddDPCountErr(number) ==
    IF ParseIntErr(number) # NoErr THEN ParseIntErr(number)
    ELSE IF ParseInt(number) < 1 THEN "number must be larger than 0"
    ELSE NoErr

\* the deferred function of the command
AddDPDefer(r) == IF r.err # NoErr THEN errout(r, "Create data partition failed") ELSE r

AddDPRun(p) ==
    LET i == inv[p] IN
    /\ p \in DOMAIN inv /\ i.cmd = "add-dp" /\ i.pc = "start"
    /\ IF AddDPCountErr(i.opt.number) # NoErr
       THEN Upd(p, Return(AddDPDefer([i EXCEPT !.err = AddDPCountErr(i.opt.number)])))
       ELSE \E ok \in OnVolume :
            LET r == Call(i, [api |-> "CreateDataPartition", volume |-> volumeName,
                              count |-> IntOfInt64(ParseInt(i.opt.number)), ok |-> ok])
            IN Upd(p, Return(AddDPDefer([r EXCEPT !.err = IF ok THEN NoErr ELSE "remote error"])))
    /\ UNCHANGED master

(***************************************************************************)
(* volume info                                                             *)
(***************************************************************************)
InfoOpts == [optMetaDetail : BOOLEAN, optDataDetail : BOOLEAN]

\* the partition identifiers of a list as the master may return it
PartitionLists == {<<>>, <<2, 1>>, <<1, 2>>}

\* os.Exit(code) in a command
OsExit(r, code) == [r EXCEPT !.pc = "exit", !.exitCode = code]

RECURSIVE InsertByID(_, _)
InsertByID(s, x) ==
    IF s = <<>> THEN <<x>>
    ELSE IF x < Head(s) THEN <<x>> \o s
    ELSE <<Head(s)>> \o InsertByID(Tail(s), x)

\* sort.SliceStable, ascending by PartitionID
RECURSIVE SortByPartitionID(_)
SortByPartitionID(views) ==
    IF views = <<>> THEN <<>>
    ELSE InsertByID(SortByPartitionID(SubSeq(views, 1, Len(views) - 1)),
                    views[Len(views)])

\* one row of a partition table
formatPartitionTableRow(id) == "partition " \o ToString(id)

\* the header and the rows of a table written to the standard output
RECURSIVE PrintRows(_, _)
PrintRows(r, views) ==
    IF views = <<>> THEN r
    ELSE PrintRows(stdout(r, formatPartitionTableRow(Head(views))), Tail(views))

\* The summary: the fetch, its error written out, and the summary rendered
\* from svv; formatSimpleVolView reads the fields of svv, a nil pointer
\* dereference when the fetch has failed.
InfoFetch(p) ==
    LET i == inv[p] IN
    /\ p \in DOMAIN inv /\ i.cmd = "info" /\ i.pc = "start"
    /\ \E ok \in OnVolume :
       LET r == Call(i, [api |-> "GetVolumeSimpleInfo", name |-> volumeName, ok |-> ok])
           r1 == [r EXCEPT !.vv = GetVolumeSimpleInfo(master, ok),
                           !.fetched = GetVolumeSimpleInfo(master, ok)]
       IN IF ok
          THEN Upd(p, [stdout(r1, "Summary:") EXCEPT !.pc = "meta"])
          ELSE Upd(p, Panic(errout([r1 EXCEPT !.err = "remote error"],
                                   "Get volume info failed")))
    /\ UNCHANGED master

\* InfoMeta with the os.Exit(1) after the errout left out
InfoMetaNoExit(p) ==
    LET i == inv[p] IN
    /\ p \in DOMAIN inv /\ i.cmd = "info" /\ i.pc = "meta"
    /\ IF ~i.opt.optMetaDetail
       THEN Upd(p, [i EXCEPT !.pc = "data"])
       ELSE \E ok \in BOOLEAN, views \in PartitionLists :
            LET r == Call(i, [api |-> "GetMetaPartitions", name |-> volumeName, ok |-> ok]) IN
            IF ~ok
            THEN /\ views = <<>>
                 /\ Upd(p, [errout([r EXCEPT !.err = "remote error"],
                                   "Get volume metadata detail information failed")
                            EXCEPT !.pc = "data"])
            ELSE Upd(p, [PrintRows(stdout(stdout(r, "Meta partitions:"),
                                          "metaPartitionTableHeader"),
                                   SortByPartitionID(views))
                         EXCEPT !.pc = "data"])
    /\ UNCHANGED master

\* the metadata detail, if asked for
InfoMeta(p) ==
    LET i == inv[p] IN
    /\ p \in DOMAIN inv /\ i.cmd = "info" /\ i.pc = "meta"
    /\ IF ~i.opt.optMetaDetail
       THEN Upd(p, [i EXCEPT !.pc = "data"])
       ELSE \E ok \in BOOLEAN, views \in PartitionLists :
            LET r == Call(i, [api |-> "GetMetaPartitions", name |-> volumeName, ok |-> ok]) IN
            IF ~ok
            THEN /\ views = <<>>
                 /\ Upd(p, OsExit(errout([r EXCEPT !.err = "remote error"],
                                         "Get volume metadata detail information failed"), 1))
            ELSE Upd(p, [PrintRows(stdout(stdout(r, "Meta partitions:"),
                                          "metaPartitionTableHeader"),
                                   SortByPartitionID(views))
                         EXCEPT !.pc = "data"])
    /\ UNCHANGED master

\* the data detail, if asked for
InfoData(p) ==
    LET i == inv[p] IN
    /\ p \in DOMAIN inv /\ i.cmd = "info" /\ i.pc = "data"
    /\ IF ~i.opt.optDataDetail
       THEN Upd(p, Return(i))
       ELSE \E ok \in BOOLEAN, views \in PartitionLists :
            LET r == Call(i, [api |-> "GetDataPartitions", name |-> volumeName, ok |-> ok]) IN
            IF ~ok
            THEN /\ views = <<>>
                 /\ Upd(p, OsExit(errout([r EXCEPT !.err = "remote error"],
                                         "Get volume data detail information failed"), 1))
            ELSE Upd(p, Return(PrintRows(stdout(stdout(r, "Data partitions:"),
                                                "dataPartitionTableHeader"),
                                         SortByPartitionID(views))))
    /\ UNCHANGED master

(***************************************************************************)
(* The CLI: one invocation of one command against the master.              *)
(***************************************************************************)
Invocations ==
    {NewInv("create", o) : o \in CreateOpts}
    \cup {NewInv("set", o) : o \in SetOpts}
    \cup {NewInv("delete", o) : o \in DeleteOpts}
    \cup {NewInv("transfer", o) : o \in TransferOpts}
    \cup {NewInv("add-dp", o) : o \in AddDPOpts}
    \cup {NewInv("info", o) : o \in InfoOpts}

Masters == {None} \cup {Some(v) : v \in Volumes}

InitVol ==
    /\ master \in Masters
    /\ inv \in [{1} -> Invocations]

NextVol ==
    \E p \in Procs :
        \/ CreateConfirm(p) \/ CreateCall(p)
        \/ SetFetch(p) \/ SetDiff(p) \/ SetConfirm(p) \/ SetUpdate(p)
        \/ DeleteConfirm(p) \/ DeleteFetch(p) \/ DeleteCall(p)
        \/ TransferConfirm(p) \/ TransferFetch(p) \/ TransferLookup(p) \/ TransferCall(p)
        \/ AddDPRun(p)
        \/ InfoFetch(p) \/ InfoMeta(p) \/ InfoData(p)

(***************************************************************************)
(* The node process supervisor (cmd.go).                                   *)
(* The log level and the profiling endpoint (a goroutine of its own that   *)
(* never touches the Server) have no part in the life cycle and are left   *)
(* out.                                                                    *)
(***************************************************************************)
RoleMaster == "master"
RoleMeta == "metanode"
RoleData == "datanode"
ModuleMaster == "master"
ModuleMeta == "metaNode"
ModuleData == "dataNode"
Roles == {RoleMaster, RoleMeta, RoleData, "", "client"}
Signals == {"SIGINT", "SIGTERM"}

\* ServerOfRole with the default case constructing a Server
ServerOfRoleDefaultData(r) ==
    CASE r = RoleMeta -> ModuleMeta
      [] r = RoleMaster -> ModuleMaster
      [] OTHER -> ModuleData

\* the switch on the role: the module of the Server constructed, "nil" in
\* the default case
ServerOfRole(r) ==
    CASE r = RoleMeta -> ModuleMeta
      [] r = RoleMaster -> ModuleMaster
      [] r = RoleData -> ModuleData
      [] OTHER -> "nil"

Log(msg) == log' = Append(log, msg)

\* os.Exit(code): the process ends, with all its goroutines
Exit(code) == exited' = TRUE /\ exitCode' = code

\* The deferred function of main: a panic of the main goroutine is
\* recovered, logged, the log flushed, and raised again, which ends the
\* process with status 2.
MainRecover(r) ==
    /\ recovered' = recovered + 1
    /\ Log(<<"action[main] process panic detail", r>>)
    /\ flushed' = flushed + 1
    /\ Exit(2)

\* flag.Parse, modifyOpenFiles and the version flag
MainInit ==
    /\ ~exited /\ pc = "main"
    /\ \E limitOk \in BOOLEAN, configVersion \in BOOLEAN :
       IF ~limitOk
       THEN /\ MainRecover("Error Setting Rlimit")
            /\ UNCHANGED pc
       ELSE IF configVersion
       THEN /\ Log("Current Verson") /\ Exit(0)
            /\ UNCHANGED <<pc, recovered, flushed>>
       ELSE /\ Log("Hello, Cfs Storage") /\ pc' = "role"
            /\ UNCHANGED <<exited, exitCode, recovered, flushed>>
    /\ UNCHANGED <<role, server, registered, sigC, sigPc, startState, stopped,
                   syncCalls, shutdownCalls, shutdownAt, shutdownBy, signals>>
    /\ UNCHANGED cliVars

\* the switch on the role
MainRole ==
    /\ ~exited /\ pc = "role"
    /\ IF ServerOfRole(role) = "nil"
       THEN /\ Log("Fatal: role mismatch") /\ Exit(1)
            /\ UNCHANGED <<pc, server>>
       ELSE /\ server' = ServerOfRole(role) /\ pc' = "initlog"
            /\ UNCHANGED <<exited, exitCode, log>>
    /\ UNCHANGED <<role, registered, sigC, sigPc, startState, stopped, syncCalls,
                   shutdownCalls, shutdownAt, shutdownBy, signals, recovered, flushed>>
    /\ UNCHANGED cliVars

\* log.InitLog
MainInitLog ==
    /\ ~exited /\ pc = "initlog"
    /\ \E ok \in BOOLEAN :
       IF ok
       THEN pc' = "intercept" /\ UNCHANGED <<exited, exitCode, log>>
       ELSE Log("Fatal: failed to init log") /\ Exit(1) /\ UNCHANGED pc
    /\ UNCHANGED <<role, server, registered, sigC, sigPc, startState, stopped,
                   syncCalls, shutdownCalls, shutdownAt, shutdownBy, signals,
                   recovered, flushed>>
    /\ UNCHANGED cliVars

\* interceptSignal with the call of signal.Notify left out
interceptSignalNoNotify ==
    /\ ~exited /\ pc = "intercept"
    /\ Log("action[interceptSignal] register system signal.")
    /\ sigPc' = "waiting"
    /\ pc' = "start"
    /\ UNCHANGED <<role, server, registered, sigC, startState, stopped, syncCalls,
                   shutdownCalls, shutdownAt, shutdownBy, signals, exited, exitCode,
                   recovered, flushed>>
    /\ UNCHANGED cliVars

\* interceptSignal(server): the channel is registered for SIGINT and SIGTERM
\* and the goroutine that waits on it is started
interceptSignal ==
    /\ ~exited /\ pc = "intercept"
    /\ registered' = TRUE
    /\ Log("action[interceptSignal] register system signal.")
    /\ sigPc' = "waiting"
    /\ pc' = "start"
    /\ UNCHANGED <<role, server, sigC, startState, stopped, syncCalls, shutdownCalls,
                   shutdownAt, shutdownBy, signals, exited, exitCode, recovered, flushed>>
    /\ UNCHANGED cliVars

\* err = server.Start(cfg): the call
MainStartCall ==
    /\ ~exited /\ pc = "start"
    /\ startState' = "inflight"
    /\ pc' = "starting"
    /\ UNCHANGED <<role, server, registered, sigC, sigPc, stopped, syncCalls,
                   shutdownCalls, shutdownAt, shutdownBy, signals, exited, exitCode,
                   recovered, flushed, log>>
    /\ UNCHANGED cliVars

\* MainStartReturn with the test of err left out
MainStartReturnNoCheck ==
    /\ ~exited /\ pc = "starting"
    /\ \E outcome \in {"ok", "failed", "panicked"} :
       /\ startState' = outcome
       /\ IF outcome = "panicked"
          THEN MainRecover("Start") /\ UNCHANGED pc
          ELSE /\ pc' = "sync"
               /\ UNCHANGED <<exited, exitCode, recovered, flushed, log>>
    /\ UNCHANGED <<role, server, registered, sigC, sigPc, stopped, syncCalls,
                   shutdownCalls, shutdownAt, shutdownBy, signals>>
    /\ UNCHANGED cliVars

\* server.Start returns nil or an error, or panics
MainStartReturn ==
    /\ ~exited /\ pc = "starting"
    /\ \E outcome \in {"ok", "failed", "panicked"} :
       /\ startState' = outcome
       /\ IF outcome = "panicked"
          THEN MainRecover("Start") /\ UNCHANGED pc
          ELSE /\ pc' = IF outcome = "ok" THEN "sync" ELSE "fatal"
               /\ UNCHANGED <<exited, exitCode, recovered, flushed, log>>
    /\ UNCHANGED <<role, server, registered, sigC, sigPc, stopped, syncCalls,
                   shutdownCalls, shutdownAt, shutdownBy, signals>>
    /\ UNCHANGED cliVars

\* err != nil: the failure is printed and logged, the log flushed, exit 1
MainStartFailed ==
    /\ ~exited /\ pc = "fatal"
    /\ Log("Fatal: failed to start the baud storage daemon")
    /\ flushed' = flushed + 1
    /\ Exit(1)
    /\ UNCHANGED <<pc, role, server, registered, sigC, sigPc, startState, stopped,
                   syncCalls, shutdownCalls, shutdownAt, shutdownBy, signals, recovered>>
    /\ UNCHANGED cliVars

\* server.Sync(): the call, which blocks the main goroutine
MainSyncCall ==
    /\ ~exited /\ pc = "sync"
    /\ syncCalls' = syncCalls + 1
    /\ pc' = "syncing"
    /\ UNCHANGED <<role, server, registered, sigC, sigPc, startState, stopped,
                   shutdownCalls, shutdownAt, shutdownBy, signals, exited, exitCode,
                   recovered, flushed, log>>
    /\ UNCHANGED cliVars

\* MainSyncReturn with the Server started again once Sync has returned
MainSyncReturnRestart ==
    /\ ~exited /\ pc = "syncing"
    /\ \/ /\ stopped
          /\ pc' = "start"
          /\ UNCHANGED <<exited, exitCode, recovered, flushed, log>>
       \/ /\ MainRecover("Sync")
          /\ UNCHANGED pc
    /\ UNCHANGED <<role, server, registered, sigC, sigPc, startState, stopped,
                   syncCalls, shutdownCalls, shutdownAt, shutdownBy, signals>>
    /\ UNCHANGED cliVars

\* Sync returns once the Server has stopped, or panics
MainSyncReturn ==
    /\ ~exited /\ pc = "syncing"
    /\ \/ /\ stopped
          /\ pc' = "synced"
          /\ UNCHANGED <<exited, exitCode, recovered, flushed, log>>
       \/ /\ MainRecover("Sync")
          /\ UNCHANGED pc
    /\ UNCHANGED <<role, server, registered, sigC, sigPc, startState, stopped,
                   syncCalls, shutdownCalls, shutdownAt, shutdownBy, signals>>
    /\ UNCHANGED cliVars

\* log.LogFlush(); os.Exit(0)
MainExit ==
    /\ ~exited /\ pc = "synced"
    /\ flushed' = flushed + 1
    /\ Exit(0)
    /\ UNCHANGED <<pc, role, server, registered, sigC, sigPc, startState, stopped,
                   syncCalls, shutdownCalls, shutdownAt, shutdownBy, signals,
                   recovered, log>>
    /\ UNCHANGED cliVars

\* SigShutdownCall with the signal received and logged, Shutdown not called
SigShutdownCallLogOnly ==
    /\ ~exited /\ sigPc = "waiting" /\ sigC > 0
    /\ sigC' = sigC - 1
    /\ Log("action[interceptSignal] received signal")
    /\ sigPc' = "done"
    /\ UNCHANGED <<pc, role, server, registered, startState, stopped, syncCalls,
                   shutdownCalls, shutdownAt, shutdownBy,
                   signals, exited, exitCode, recovered, flushed>>
    /\ UNCHANGED cliVars

\* The goroutine of interceptSignal: sig := <-sigC, the signal is logged and
\* s.Shutdown() is called.
SigShutdownCall ==
    /\ ~exited /\ sigPc = "waiting" /\ sigC > 0
    /\ sigC' = sigC - 1
    /\ Log("action[interceptSignal] received signal")
    /\ shutdownCalls' = shutdownCalls + 1
    /\ shutdownAt' = IF shutdownCalls = 0 THEN startState ELSE shutdownAt
    /\ shutdownBy' = "signal goroutine"
    /\ sigPc' = "shutdown"
    /\ UNCHANGED <<pc, role, server, registered, startState, stopped, syncCalls,
                   signals, exited, exitCode, recovered, flushed>>
    /\ UNCHANGED cliVars

\* SigShutdownReturn with the goroutine receiving in a loop
\* (for sig := range sigC) instead of once
SigShutdownReturnLoop ==
    /\ ~exited /\ sigPc = "shutdown"
    /\ \/ /\ stopped' = TRUE /\ sigPc' = "waiting"
          /\ UNCHANGED <<exited, exitCode>>
       \/ /\ Exit(2)
          /\ UNCHANGED <<stopped, sigPc>>
    /\ UNCHANGED <<pc, role, server, registered, sigC, startState, syncCalls,
                   shutdownCalls, shutdownAt, shutdownBy, signals, recovered,
                   flushed, log>>
    /\ UNCHANGED cliVars

\* Shutdown returns, the Server stopped, and the goroutine ends; or Shutdown
\* panics, in a goroutine that defers no recover: the process ends, status 2
SigShutdownReturn ==
    /\ ~exited /\ sigPc = "shutdown"
    /\ \/ /\ stopped' = TRUE /\ sigPc' = "done"
          /\ UNCHANGED <<exited, exitCode>>
       \/ /\ Exit(2)
          /\ UNCHANGED <<stopped, sigPc>>
    /\ UNCHANGED <<pc, role, server, registered, sigC, startState, syncCalls,
                   shutdownCalls, shutdownAt, shutdownBy, signals, recovered,
                   flushed, log>>
    /\ UNCHANGED cliVars

\* The environment delivers SIGINT or SIGTERM. Not registered, the signal
\* ends the process; registered, it is sent to sigC without blocking, and
\* dropped when the channel (capacity 1) is full.
Signal ==
    /\ ~exited /\ signals < MaxSignals
    /\ signals' = signals + 1
    /\ \E sig \in Signals :
       IF registered
       THEN /\ sigC' = IF sigC < 1 THEN sigC + 1 ELSE sigC
            /\ UNCHANGED <<exited, exitCode>>
       ELSE /\ Exit(IF sig = "SIGINT" THEN 130 ELSE 143)
            /\ UNCHANGED sigC
    /\ UNCHANGED <<pc, role, server, registered, sigPc, startState, stopped,
                   syncCalls, shutdownCalls, shutdownAt, shutdownBy, recovered,
                   flushed, log>>
    /\ UNCHANGED cliVars

\* The running Server stops by itself (an internal fatal error).
ServerFails ==
    /\ ~exited /\ startState = "ok" /\ ~stopped
    /\ stopped' = TRUE
    /\ UNCHANGED <<pc, role, server, registered, sigC, sigPc, startState, syncCalls,
                   shutdownCalls, shutdownAt, shutdownBy, signals, exited, exitCode,
                   recovered, flushed, log>>
    /\ UNCHANGED cliVars

(***************************************************************************)
(* The specifications.                                                     *)
(***************************************************************************)
SupIdle ==
    /\ pc = "main" /\ server = "nil" /\ registered = FALSE /\ sigC = 0
    /\ sigPc = "none" /\ startState = "notcalled" /\ stopped = FALSE
    /\ syncCalls = 0 /\ shutdownCalls = 0 /\ shutdownAt = "never"
    /\ shutdownBy = "none" /\ signals = 0 /\ exited = FALSE /\ exitCode = 0
    /\ recovered = 0 /\ flushed = 0 /\ log = <<>>

InitMain ==
    /\ role \in Roles
    /\ SupIdle
    /\ master = None /\ inv = <<>>

NextMain ==
    \/ MainInit \/ MainRole \/ MainInitLog \/ interceptSignal
    \/ MainStartCall \/ MainStartReturn \/ MainStartFailed
    \/ MainSyncCall \/ MainSyncReturn \/ MainExit
    \/ SigShutdownCall \/ SigShutdownReturn \/ Signal \/ ServerFails

SpecMain == InitMain /\ [][NextMain]_vars

\* Shutdown returns to the goroutine of interceptSignal
ShutdownReturns == SigShutdownReturn /\ sigPc' = "done"

\* Sync returns to main, the Server stopped
SyncReturns == MainSyncReturn /\ pc' = "synced"

\* The Go scheduler runs every goroutine that can run: the steps of main and
\* of the goroutine of interceptSignal are taken when they stay enabled, and
\* a call of Shutdown, and of Sync on a stopped Server, returns. Nothing is
\* assumed of the signals, of Start and of the failures of the Server.
FairMain ==
    /\ WF_vars(MainInit) /\ WF_vars(MainRole) /\ WF_vars(MainInitLog)
    /\ WF_vars(interceptSignal) /\ WF_vars(MainStartCall)
    /\ WF_vars(MainStartFailed) /\ WF_vars(MainSyncCall)
    /\ WF_vars(SyncReturns) /\ WF_vars(MainExit)
    /\ WF_vars(SigShutdownCall) /\ WF_vars(ShutdownReturns)

SpecMainFair == InitMain /\ [][NextMain]_vars /\ FairMain

VolInit == InitVol /\ role = RoleMaster /\ SupIdle
SpecVol == VolInit /\ [][NextVol]_vars

(***************************************************************************)
(* Two invocations of volume set on the same volume, each a process of its *)
(* own: their steps interleave, the master is all they share.              *)
(***************************************************************************)
RaceOpts ==
    [optCapacity : OptCapacityValues, optReplicas : {0},
     optFollowerRead : {"", "F"}, optAuthenticate : {""},
     optEnableToken : {""}, optAutoRepair : {""},
     optZoneName : OptZoneNameValues, optYes : BOOLEAN]

InitRace ==
    /\ master \in {Some(v) : v \in {w \in Volumes : w.Owner = "u1" /\ w.Status = 0}}
    /\ inv \in [Procs -> {NewInv("set", o) : o \in RaceOpts}]
    /\ role = RoleMaster /\ SupIdle

NextRace ==
    \E p \in Procs :
        \/ SetFetch(p) \/ SetDiff(p) \/ SetConfirm(p) \/ SetUpdate(p)

SpecRace == InitRace /\ [][NextRace]_vars

Spec == SpecVol

(***************************************************************************)
(* The claims.                                                             *)
(***************************************************************************)
\* the positions in the calls of invocation i where api was called
IdxOf(i, api) == {k \in 1..Len(i.calls) : i.calls[k].api = api}
Issued(i, api) == IdxOf(i, api) # {}
Says(i, stream, msg) == \E k \in 1..Len(i.out) : i.out[k] = <<stream, msg>>
\* the invocations of a command
Running(cmd) == {p \in DOMAIN inv : inv[p].cmd = cmd}
\* a successful snapshot fetch precedes position k of the calls of i
FetchedBefore(i, k) ==
    \E j \in 1..(k - 1) : i.calls[j].api = "GetVolumeSimpleInfo" /\ i.calls[j].ok

\* C1: a set invocation issues at most one update call, and in the payload
\* of an update call every field whose flag was left at its default (not
\* supplied) has the value of the snapshot fetched by the same invocation.
C1_SetKeepsOmittedFields ==
    \A p \in Running("set") :
        LET i == inv[p] IN
        /\ Cardinality(IdxOf(i, "UpdateVolume")) <= 1
        /\ \A k \in IdxOf(i, "UpdateVolume") :
           LET c == i.calls[k]
               f == Get(i.fetched)
           IN /\ i.fetched # None
              /\ (i.opt.optCapacity = 0 => c.capacity = f.Capacity)
              /\ (i.opt.optReplicas = 0 => c.replicas = f.DpReplicaNum)
              /\ (i.opt.optFollowerRead = "" => c.followerRead = f.FollowerRead)
              /\ (i.opt.optAuthenticate = "" => c.authenticate = f.Authenticate)
              /\ (i.opt.optEnableToken = "" => c.enableToken = f.EnableToken)
              /\ (i.opt.optAutoRepair = "" => c.autoRepair = f.AutoRepair)
              /\ (i.opt.optZoneName = "" => c.zoneName = f.ZoneName)

\* set --capacity 80 alone on a volume of capacity 50: the update is issued
\* with capacity 80
C1_Witness ==
    \E p \in Running("set") :
        LET i == inv[p] IN
        /\ i.pc = "done" /\ Issued(i, "UpdateVolume")
        /\ i.opt.optCapacity = 80 /\ i.opt.optReplicas = 0 /\ i.opt.optZoneName = ""
        /\ i.opt.optFollowerRead = "" /\ i.opt.optAuthenticate = ""
        /\ i.opt.optEnableToken = "" /\ i.opt.optAutoRepair = ""
        /\ Get(i.fetched).Capacity = 50
        /\ i.calls[Len(i.calls)].capacity = 80

\* no flag of set was supplied
NoOverrides(o) ==
    /\ o.optCapacity = 0 /\ o.optReplicas = 0 /\ o.optZoneName = ""
    /\ o.optFollowerRead = "" /\ o.optAuthenticate = ""
    /\ o.optEnableToken = "" /\ o.optAutoRepair = ""

\* C2, as claimed: set with no override performs no remote call at all, and
\* reports "no changes".
C2_NoOverridesNoRemoteCall ==
    \A p \in Running("set") :
        LET i == inv[p] IN
        NoOverrides(i.opt) =>
            /\ i.calls = <<>>
            /\ (i.pc = "done" => Says(i, "stdout", "No changes has been set."))

\* C2, amended: set with no override performs exactly one remote call, the
\* snapshot fetch, and never an update call; it reports "no changes" when
\* the fetch succeeded and the error of the fetch otherwise.
C2_NoOverridesNoUpdate ==
    \A p \in Running("set") :
        LET i == inv[p] IN
        NoOverrides(i.opt) =>
            /\ ~Issued(i, "UpdateVolume")
            /\ i.pc # "start" => (Len(i.calls) = 1 /\ i.calls[1].api = "GetVolumeSimpleInfo")
            /\ i.pc \in {"start", "overrides", "done"}
            /\ i.pc = "done" =>
                 IF i.calls[1].ok
                 THEN Says(i, "stdout", "No changes has been set.") /\ i.err = NoErr
                 ELSE Says(i, "stderr", "Error") /\ i.err # NoErr

C2_Witness ==
    \E p \in Running("set") :
        LET i == inv[p] IN
        /\ NoOverrides(i.opt) /\ i.pc = "done"
        /\ i.calls[1].ok
        /\ Says(i, "stdout", "No changes has been set.")

\* C3: a delete invocation without --yes has issued a remote call only if
\* the word read at the prompt is exactly "yes"; with an empty answer or
\* "y" it ends aborted, having issued no call.
C3_DeleteNeedsYes ==
    \A p \in Running("delete") :
        LET i == inv[p] IN
        ~i.opt.optYes =>
            /\ i.calls # <<>> => (i.prompted /\ i.userConfirm = "yes")
            /\ (i.prompted /\ i.userConfirm \in {"", "y"}) =>
                 (i.pc = "done" /\ i.calls = <<>> /\ Says(i, "stdout", "Abort by user."))

C3_Witness ==
    \E p \in Running("delete") :
        LET i == inv[p] IN
        /\ ~i.opt.optYes /\ i.prompted /\ i.userConfirm = "y"
        /\ i.pc = "done" /\ i.calls = <<>>
        /\ master # None

\* C4: a create invocation issues at most one call, a creation call. When
\* it is over: without --yes it has issued the call if the answer at the
\* prompt was "yes" or empty, and no call for any other answer; with --yes
\* it has issued the call without prompting.
C4_CreateConfirm ==
    \A p \in Running("create") :
        LET i == inv[p] IN
        /\ Len(i.calls) <= 1
        /\ \A k \in 1..Len(i.calls) : i.calls[k].api = "CreateVolume"
        /\ i.calls # <<>> => i.pc = "done"
        /\ (i.pc = "done" /\ ~i.opt.optYes) =>
             /\ i.prompted
             /\ i.userConfirm \in {"yes", ""} => Len(i.calls) = 1
             /\ i.userConfirm \notin {"yes", ""} => i.calls = <<>>
        /\ (i.pc = "done" /\ i.opt.optYes) => (~i.prompted /\ Len(i.calls) = 1)

C4_Witness ==
    \E p \in Running("create") :
        LET i == inv[p] IN
        /\ ~i.opt.optYes /\ i.prompted /\ i.userConfirm = ""
        /\ i.pc = "done" /\ Len(i.calls) = 1 /\ i.calls[1].ok

\* the boolean flags of set
BoolFlags == {"optFollowerRead", "optAuthenticate", "optEnableToken", "optAutoRepair"}
\* the two canonical literals of a boolean
CanonicalLits == {"true", "false"}
\* the literals the command accepts for a boolean flag
AcceptedLits ==
    {"1", "t", "T", "TRUE", "true", "True", "0", "f", "F", "FALSE", "false", "False"}

\* C5, as claimed: if a boolean flag of set was supplied with a literal
\* that is not one of the canonical "true" and "false", no update call is
\* issued.
C5_NonCanonicalBoolNoUpdate ==
    \A p \in Running("set") :
        LET i == inv[p] IN
        (\E f \in BoolFlags : i.opt[f] # "" /\ i.opt[f] \notin CanonicalLits)
            => ~Issued(i, "UpdateVolume")

\* C5, amended: if a boolean flag of set was supplied with a literal that
\* is not one of 1, t, T, TRUE, true, True, 0, f, F, FALSE, false, False,
\* no update call is issued, whatever the other flags and the confirmation,
\* and the invocation ends with the error written out.
C5_InvalidBoolNoUpdate ==
    \A p \in Running("set") :
        LET i == inv[p] IN
        (\E f \in BoolFlags : i.opt[f] # "" /\ i.opt[f] \notin AcceptedLits)
            => /\ ~Issued(i, "UpdateVolume")
               /\ i.pc \in {"start", "overrides", "done"}
               /\ i.pc = "done" => (i.err # NoErr /\ Says(i, "stderr", "Error"))

\* --yes, a valid capacity, replica count, zone and follower-read, and an
\* invalid auto-repair: the invocation is over after the fetch alone
C5_Witness ==
    \E p \in Running("set") :
        LET i == inv[p] IN
        /\ i.opt.optAutoRepair = "maybe" /\ i.opt.optFollowerRead = "true"
        /\ i.opt.optAuthenticate = "" /\ i.opt.optEnableToken = "F"
        /\ i.opt.optCapacity = 80 /\ i.opt.optReplicas = 2 /\ i.opt.optZoneName = "z2"
        /\ i.opt.optYes
        /\ i.pc = "done" /\ i.fetched # None /\ Len(i.calls) = 1
        /\ i.err = "invalid syntax"

\* C6: every update call of set and every deletion call of delete comes
\* after a successful snapshot fetch of the same invocation and carries the
\* key derived from the owner of the fetched snapshot; the owner of the
\* working copy of set is the owner fetched.
C6_KeyOfFetchedOwner ==
    /\ \A p \in Running("set") :
        LET i == inv[p] IN
        /\ \A k \in IdxOf(i, "UpdateVolume") :
              /\ FetchedBefore(i, k)
              /\ i.fetched # None
              /\ i.calls[k].authKey = calcAuthKey(Get(i.fetched).Owner)
        /\ i.vv # None => (i.fetched # None /\ Get(i.vv).Owner = Get(i.fetched).Owner)
    /\ \A p \in Running("delete") :
        LET i == inv[p] IN
        \A k \in IdxOf(i, "DeleteVolume") :
              /\ FetchedBefore(i, k)
              /\ i.fetched # None
              /\ i.calls[k].authKey = calcAuthKey(Get(i.fetched).Owner)

\* a set invocation that changed fields of the volume of u2 and updated it
C6_Witness ==
    \E p \in Running("set") :
        LET i == inv[p] IN
        /\ i.pc = "done" /\ Issued(i, "UpdateVolume")
        /\ Get(i.fetched).Owner = "u2"
        /\ Get(i.vv) # Get(i.fetched)
        /\ i.calls[Len(i.calls)].authKey = calcAuthKey("u2")

\* C7: a transfer invocation whose fetched snapshot has a status other
\* than 0 issues neither the user lookup nor the transfer request, with or
\* without --force, and ends with the error written out.
C7_TransferAbnormalStatus ==
    \A p \in Running("transfer") :
        LET i == inv[p] IN
        (i.fetched # None /\ Get(i.fetched).Status # 0) =>
            /\ ~Issued(i, "GetUserInfo") /\ ~Issued(i, "TransferVol")
            /\ i.pc = "done"
            /\ i.err = "volume status abnormal"
            /\ Says(i, "stderr", "Transfer volume failed")

C7_Witness ==
    \E p \in Running("transfer") :
        LET i == inv[p] IN
        /\ i.opt.optForce /\ i.fetched # None /\ Get(i.fetched).Status = 1
        /\ i.pc = "done" /\ Len(i.calls) = 1

\* C8: an add-dp invocation issues no call when NUMBER is not an integer or
\* is less than 1, and otherwise exactly one partition-creation call, for
\* that number of partitions: none for "0" and "-3", one for 2 partitions
\* for "2".
C8_AddDPCount ==
    \A p \in Running("add-dp") :
        LET i == inv[p]
            n == i.opt.number
        IN /\ (ParseIntErr(n) # NoErr \/ ParseInt(n) < 1) => i.calls = <<>>
           /\ (i.pc = "done" /\ ParseIntErr(n) = NoErr /\ ParseInt(n) >= 1) =>
                /\ Len(i.calls) = 1
                /\ i.calls[1].api = "CreateDataPartition"
                /\ i.calls[1].count = ParseInt(n)
           /\ n \in {<<"0">>, <<"-", "3">>, <<"x">>, <<>>, <<"-">>, <<"2", "x">>} => i.calls = <<>>
           /\ (i.pc = "done" /\ n \in {<<"2">>, <<"+", "2">>, <<"0", "2">>}) =>
                (Len(i.calls) = 1 /\ i.calls[1].count = 2)
           /\ (i.pc = "done" /\ n = <<"3", "2">>) =>
                (Len(i.calls) = 1 /\ i.calls[1].count = 32)

C8_Witness ==
    \E p \in Running("add-dp") :
        LET i == inv[p] IN
        /\ i.opt.number = <<"-", "3">> /\ i.pc = "done" /\ i.calls = <<>>
        /\ i.err = "number must be larger than 0"
        /\ master # None

\* C9, as claimed: Shutdown is invoked on the Server only after Start has
\* returned successfully: never before Start is called, while it is in
\* flight, or after it failed.
C9_ShutdownOnlyAfterStartOk ==
    shutdownCalls > 0 => shutdownAt = "ok"

\* C9, amended: the supervisor registers the signal interceptor before it
\* calls Start. Start is called only with the interceptor registered, and
\* Shutdown is invoked only with the interceptor registered, a Server
\* constructed and a signal delivered: before Start is called, while Start
\* is in flight, or after Start returned, successfully or not.
C9_InterceptBeforeStart ==
    /\ startState # "notcalled" => registered
    /\ registered => server # "nil"
    /\ shutdownCalls > 0 =>
         /\ registered /\ signals > 0
         /\ shutdownAt \in {"notcalled", "inflight", "ok", "failed"}

\* Shutdown is invoked while Start is in flight
C9_Witness ==
    /\ shutdownCalls = 1 /\ shutdownAt = "inflight" /\ startState = "inflight"
    /\ sigPc = "shutdown"

\* C10: if Start fails, Sync is never called and the process exits with a
\* code other than 0; Sync is called at most once, and only after Start
\* succeeded; after Start succeeded the main goroutine goes on only by
\* calling Sync, and the process exits with code 0 only after that call of
\* Sync has returned.
C10_SyncAndExit ==
    /\ startState = "failed" =>
         /\ syncCalls = 0
         /\ pc = "fatal"
         /\ exited => exitCode # 0
    /\ syncCalls <= 1
    /\ syncCalls = 1 => startState = "ok"
    /\ startState = "ok" =>
         /\ pc \in {"sync", "syncing", "synced"}
         /\ syncCalls = (IF pc = "sync" THEN 0 ELSE 1)
         /\ (exited /\ exitCode = 0) => (pc = "synced" /\ stopped)
    /\ (exited /\ exitCode = 0) => (startState \in {"ok", "notcalled"})

\* Start succeeded, Sync was called once and returned, the process exited 0
C10_Witness ==
    /\ exited /\ exitCode = 0 /\ startState = "ok"
    /\ syncCalls = 1 /\ pc = "synced" /\ shutdownCalls = 1

\* ---------------------------------------------------------------------
\* C11. However many signals are delivered, and in whatever order, Shutdown
\* is invoked at most once, on the receipt of the first signal, and by the
\* goroutine of interceptSignal, never by the main goroutine: the goroutine
\* receives from sigC once and ends, later signals stay in the channel or
\* are dropped.
C11_ShutdownAtMostOnce ==
    /\ shutdownCalls <= 1
    /\ shutdownCalls = 1 =>
          /\ shutdownBy = "signal goroutine"
          /\ sigPc \in {"shutdown", "done"}
          /\ registered /\ signals >= 1
    /\ shutdownCalls = 0 => sigPc \in {"none", "waiting"}
    /\ sigPc \in {"shutdown", "done"} => shutdownCalls = 1

\* two signals delivered, one Shutdown: the second signal is left in sigC
C11_Witness ==
    /\ signals >= 2 /\ shutdownCalls = 1 /\ sigPc = "done" /\ sigC = 1

\* ---------------------------------------------------------------------
\* C12. For every role of the configuration outside master, metanode and
\* datanode, no Server is constructed, the signal interception is not
\* registered, none of Start, Shutdown and Sync is ever invoked, main never
\* gets past the switch on the role, and the process that has read the role
\* ends with a status other than 0. (The configuration is read after the
\* version flag, which ends the process before any role is looked at.)
C12_UnknownRoleFails ==
    role \notin {"master", "metanode", "datanode"} =>
        /\ server = "nil"
        /\ ~registered /\ sigPc = "none" /\ sigC = 0
        /\ startState = "notcalled" /\ syncCalls = 0 /\ shutdownCalls = 0
        /\ ~stopped
        /\ pc \in {"main", "role"}
        /\ (exited /\ pc = "role") => exitCode # 0

\* an unknown role has been read and the process has ended with status 1
C12_Witness ==
    /\ role = "client" /\ pc = "role" /\ exited /\ exitCode = 1
    /\ signals = 0
    /\ log[Len(log)] = "Fatal: role mismatch"

\* ---------------------------------------------------------------------
\* The lifecycle state of the process: Unconfigured until the role is
\* resolved and the log initialised, Configured until Start has returned
\* without error, ShuttingDown from the receipt of a signal by the goroutine
\* of interceptSignal (or the stop of the Server) on, Stopped once Sync has
\* returned, Exited after os.Exit or a panic.
Lifecycle ==
    IF exited THEN "Exited"
    ELSE IF pc \in {"main", "role", "initlog"} THEN "Unconfigured"
    ELSE IF pc = "synced" THEN "Stopped"
    ELSE IF shutdownCalls > 0 \/ stopped THEN "ShuttingDown"
    ELSE IF startState = "ok" THEN "Running"
    ELSE "Configured"

LifecycleRank(l) ==
    CASE l = "Unconfigured" -> 0
      [] l = "Configured" -> 1
      [] l = "Running" -> 2
      [] l = "ShuttingDown" -> 3
      [] l = "Stopped" -> 4
      [] l = "Exited" -> 5

\* C13 as stated: every step that changes the lifecycle state is one of
\* Unconfigured -> Configured -> Running -> ShuttingDown -> Stopped or an
\* exit, Start is called at most once, and no state after ShuttingDown or
\* Stopped is Running.
C13_OnlyListedTransitions ==
    [][/\ \/ Lifecycle' = Lifecycle
          \/ Lifecycle' = "Exited"
          \/ <<Lifecycle, Lifecycle'>> \in
                {<<"Unconfigured", "Configured">>, <<"Configured", "Running">>,
                 <<"Running", "ShuttingDown">>, <<"ShuttingDown", "Stopped">>}
       /\ (startState' = "inflight" /\ startState # "inflight") =>
              startState = "notcalled"
       /\ Lifecycle \in {"ShuttingDown", "Stopped", "Exited"} =>
              Lifecycle' # "Running"]_vars

\* C13. The lifecycle is one-shot: every step keeps the lifecycle state or
\* moves it forward in the order Unconfigured, Configured, Running,
\* ShuttingDown, Stopped, Exited, one state at a time except for an exit and
\* for Configured -> ShuttingDown (a signal received before Start has
\* returned, Running being skipped); Start is called at most once; no state
\* after ShuttingDown, Stopped or Exited is Running.
C13_OneShotLifecycle ==
    [][/\ \/ Lifecycle' = Lifecycle
          \/ Lifecycle' = "Exited"
          \/ LifecycleRank(Lifecycle') = LifecycleRank(Lifecycle) + 1
          \/ <<Lifecycle, Lifecycle'>> = <<"Configured", "ShuttingDown">>
       /\ (startState' = "inflight" /\ startState # "inflight") =>
              startState = "notcalled"
       /\ startState # "notcalled" => startState' # "notcalled"
       /\ Lifecycle \in {"ShuttingDown", "Stopped", "Exited"} =>
              Lifecycle' # "Running"]_vars

\* Stopped has been reached through Running and ShuttingDown: Shutdown was
\* invoked after Start had returned, and Sync has returned
C13_Witness ==
    /\ Lifecycle = "Stopped" /\ shutdownAt = "ok" /\ startState = "ok"
    /\ syncCalls = 1

\* ---------------------------------------------------------------------
\* C14. Once Start has returned without error, a signal delivered to the
\* process leads to its end: the goroutine of interceptSignal calls
\* Shutdown, Sync returns to main, and the process exits with status 0 after
\* Sync has returned; the only other end is a panic of Shutdown or of Sync
\* (status 2), where Shutdown has not made Sync return.
C14_SignalLeadsToExit ==
    (~exited /\ startState = "ok" /\ registered /\ signals > 0)
        ~> (exited /\ \/ exitCode = 0 /\ pc = "synced" /\ stopped
                      \/ exitCode = 2 /\ (sigPc = "shutdown" \/ recovered = 1))

\* the process has exited with status 0 after a signal received while the
\* Server was running
C14_Witness ==
    /\ exited /\ exitCode = 0 /\ pc = "synced"
    /\ shutdownAt = "ok" /\ sigPc = "done" /\ signals >= 1

\* ---------------------------------------------------------------------
\* the invocations where the user has answered the prompt with an abort
Aborted ==
    {p \in DOMAIN inv :
        /\ inv[p].prompted
        /\ \/ inv[p].cmd \in {"create", "set"} /\ inv[p].userConfirm \notin {"yes", ""}
           \/ inv[p].cmd \in {"delete", "transfer"} /\ inv[p].userConfirm # "yes"}

MutatingAPIs == {"CreateVolume", "UpdateVolume", "DeleteVolume", "TransferVol"}

\* C15. In create, set, delete and transfer, an abort by the user issues no
\* mutating call and ends the command on the normal path: "Abort by user."
\* is written to the standard output, no error is set and nothing is written
\* to the error stream.
C15_AbortIsNormalPath ==
    \A p \in Aborted :
        LET i == inv[p] IN
        /\ \A k \in 1..Len(i.calls) : i.calls[k].api \notin MutatingAPIs
        /\ i.pc = "done"
        /\ Says(i, "stdout", "Abort by user.")
        /\ i.err = NoErr
        /\ \A k \in 1..Len(i.out) : i.out[k][1] # "stderr"

\* ---------------------------------------------------------------------
\* the configuration a volume holds, and the one an update call carries
VolConfig(v) ==
    <<v.Capacity, v.DpReplicaNum, v.FollowerRead, v.Authenticate,
      v.EnableToken, v.AutoRepair, v.ZoneName>>
CallConfig(c) ==
    <<c.capacity, c.replicas, c.followerRead, c.authenticate,
      c.enableToken, c.autoRepair, c.zoneName>>
\* the update call of invocation i (its last call)
UpdateOf(i) == i.calls[Len(i.calls)]
\* the set invocations whose update call was issued and accepted
Updated ==
    {p \in Running("set") :
        /\ inv[p].pc = "done" /\ Issued(inv[p], "UpdateVolume")
        /\ UpdateOf(inv[p]).api = "UpdateVolume" /\ UpdateOf(inv[p]).ok}

\* C16. Two concurrent invocations of set on one volume are not
\* coordinated. An invocation that has fetched, found a change and not been
\* aborted issues its update whatever the other has done; the update
\* carries its whole working copy; once both updates are accepted the volume
\* holds the whole working copy of one of them (the later), never a merge,
\* and both invocations report success and no error.
C16_NoCoordination ==
    /\ \A p \in Running("set") :
          LET i == inv[p] IN
          /\ (/\ i.pc = "done" /\ i.fetched # None /\ i.isChange
              /\ i.err \notin {"invalid syntax", "Abort by user."})
                 => /\ Issued(i, "UpdateVolume")
                    /\ i.err \in {NoErr, "remote error"}
          /\ Issued(i, "UpdateVolume") =>
                CallConfig(UpdateOf(i)) = VolConfig(Get(i.vv))
    /\ \A p \in Updated : \A q \in Updated \ {p} :
          /\ master # None
          /\ VolConfig(Get(master)) \in
                {CallConfig(UpdateOf(inv[p])), CallConfig(UpdateOf(inv[q]))}
          /\ inv[p].err = NoErr
          /\ Says(inv[p], "stdout", "Volume configuration has been set successfully.")
          /\ \A k \in 1..Len(inv[p].out) : inv[p].out[k][1] # "stderr"

\* The lost update: both invocations fetched the same snapshot, p changed
\* the capacity only and q the zone only, both updates were accepted, and
\* the volume holds the working copy of q, the capacity back at the value it
\* had before p changed it; both report success.
C16_Witness ==
    \E p \in Updated : \E q \in Updated \ {p} :
        /\ inv[p].fetched = inv[q].fetched
        /\ UpdateOf(inv[p]).capacity # Get(inv[p].fetched).Capacity
        /\ UpdateOf(inv[q]).capacity = Get(inv[q].fetched).Capacity
        /\ UpdateOf(inv[q]).zoneName # Get(inv[q].fetched).ZoneName
        /\ UpdateOf(inv[p]).zoneName = Get(inv[p].fetched).ZoneName
        /\ VolConfig(Get(master)) = CallConfig(UpdateOf(inv[q]))
        /\ Get(master).Capacity = Get(inv[p].fetched).Capacity
        /\ inv[p].err = NoErr /\ inv[q].err = NoErr
        /\ Says(inv[p], "stdout", "Volume configuration has been set successfully.")
        /\ Says(inv[q], "stdout", "Volume configuration has been set successfully.")

\* ---------------------------------------------------------------------
\* the set invocations that have failed on an invalid boolean literal
FailedOnBool ==
    {p \in Running("set") : inv[p].pc = "done" /\ inv[p].err = "invalid syntax"}

\* the boolean flags of set and their fields, in the order of their blocks
BoolOrder ==
    << <<"optFollowerRead", "FollowerRead">>, <<"optAuthenticate", "Authenticate">>,
       <<"optEnableToken", "EnableToken">>, <<"optAutoRepair", "AutoRepair">> >>

\* the position in BoolOrder of the first flag with an invalid literal
FirstInvalid(o) ==
    CHOOSE n \in 1..Len(BoolOrder) :
        /\ o[BoolOrder[n][1]] # "" /\ o[BoolOrder[n][1]] \notin AcceptedLits
        /\ \A k \in 1..(n - 1) :
              o[BoolOrder[k][1]] = "" \/ o[BoolOrder[k][1]] \in AcceptedLits

\* C17, as claimed: where set has failed on an invalid boolean literal, the
\* working copy equals the fetched snapshot in every field.
C17_FailedCopyIsSnapshot ==
    \A p \in FailedOnBool : inv[p].vv = inv[p].fetched

\* C17, amended: the overrides are applied to the working copy block by
\* block (capacity, replicas, follower-read, authenticate, enable-token,
\* auto-repair, zone) and each boolean is validated in its own block. Where
\* set has failed on an invalid boolean literal, the working copy carries
\* the capacity and replica overrides and the booleans that precede the
\* invalid one, and equals the fetched snapshot in the field of the invalid
\* one and in all that follow, the zone included; the copy is never sent.
C17_FailedCopyIsPrefix ==
    \A p \in FailedOnBool :
        LET i == inv[p]
            o == i.opt
            vv == Get(i.vv)
            f == Get(i.fetched)
            n == FirstInvalid(o)
        IN
        /\ vv.Capacity = IF o.optCapacity > 0 THEN o.optCapacity ELSE f.Capacity
        /\ vv.DpReplicaNum =
              IF o.optReplicas > 0 THEN o.optReplicas % 256 ELSE f.DpReplicaNum
        /\ \A k \in 1..(n - 1) :
              vv[BoolOrder[k][2]] =
                 IF o[BoolOrder[k][1]] = "" THEN f[BoolOrder[k][2]]
                 ELSE o[BoolOrder[k][1]] \in {"1", "t", "T", "TRUE", "true", "True"}
        /\ \A k \in n..Len(BoolOrder) : vv[BoolOrder[k][2]] = f[BoolOrder[k][2]]
        /\ vv.ZoneName = f.ZoneName /\ vv.Name = f.Name /\ vv.Owner = f.Owner
        /\ vv.Status = f.Status
        /\ Len(i.calls) = 1 /\ ~Issued(i, "UpdateVolume")

\* set has failed on an invalid auto-repair literal with the capacity and
\* the follower-read of the working copy already changed, the zone not
C17_Witness ==
    \E p \in FailedOnBool :
        LET i == inv[p] IN
        /\ i.opt.optAutoRepair = "maybe" /\ i.opt.optZoneName = "z2"
        /\ Get(i.vv).Capacity = 80 /\ Get(i.fetched).Capacity = 50
        /\ Get(i.vv).FollowerRead # Get(i.fetched).FollowerRead
        /\ Get(i.vv).ZoneName = Get(i.fetched).ZoneName

\* ---------------------------------------------------------------------
\* C18. In every update call of a set invocation, a replica count r >= 1
\* supplied with the flag is carried as r, and a capacity c >= 1 supplied
\* with the flag is carried as c: nothing is truncated or wrapped around.
C18_PayloadCarriesOverrides ==
    \A p \in Running("set") :
        LET i == inv[p] IN
        \A k \in IdxOf(i, "UpdateVolume") :
            /\ i.opt.optReplicas >= 1 => i.calls[k].replicas = i.opt.optReplicas
            /\ i.opt.optCapacity >= 1 => i.calls[k].capacity = i.opt.optCapacity

\* ---------------------------------------------------------------------
\* C19. Create and delete write their success message only if the mutating
\* call (CreateVolume, DeleteVolume) has returned without error; after a
\* call that has failed, the snapshot fetch of delete included, no success
\* message is written and no further remote call is issued.
C19_SuccessOnlyAfterSuccess ==
    \A p \in Running("create") \cup Running("delete") :
        LET i == inv[p]
            api == IF i.cmd = "create" THEN "CreateVolume" ELSE "DeleteVolume"
            msg == IF i.cmd = "create" THEN "Create volume success."
                   ELSE "Delete volume success."
        IN
        /\ Says(i, "stdout", msg) =>
              \E k \in IdxOf(i, api) : i.calls[k].ok
        /\ \A k \in 1..Len(i.calls) :
              ~i.calls[k].ok => (k = Len(i.calls) /\ ~Says(i, "stdout", msg))

\* ---------------------------------------------------------------------
\* the remote calls of transfer, in their order
TransferOrder == <<"GetVolumeSimpleInfo", "GetUserInfo", "TransferVol">>

\* C20. Transfer issues its remote calls in the order snapshot fetch, user
\* lookup, transfer request, each at most once; a call is issued only if
\* every call before it has succeeded (and the fetched status is normal);
\* the transfer request carries the owner of the fetched snapshot as source
\* and the identifier returned by the user lookup as destination.
C20_TransferOrder ==
    \A p \in Running("transfer") :
        LET i == inv[p] IN
        /\ Len(i.calls) <= Len(TransferOrder)
        /\ \A k \in 1..Len(i.calls) :
              /\ i.calls[k].api = TransferOrder[k]
              /\ k < Len(i.calls) => i.calls[k].ok
        /\ Len(i.calls) >= 2 => (i.fetched # None /\ Get(i.fetched).Status = 0)
        /\ \A k \in IdxOf(i, "TransferVol") :
              /\ i.userInfo # None
              /\ i.calls[k].param.UserSrc = Get(i.fetched).Owner
              /\ i.calls[k].param.UserDst = Get(i.userInfo).UserID
              /\ i.calls[k].param.Volume = volumeName
              /\ i.calls[k].param.Force = i.opt.optForce

\* the three calls have been issued, the transfer accepted, with the
\* identifier returned by the lookup other than the owner of the snapshot
C20_Witness ==
    \E p \in Running("transfer") :
        LET i == inv[p] IN
        /\ i.pc = "done" /\ Len(i.calls) = 3 /\ i.calls[3].ok
        /\ i.calls[3].param.UserSrc = "u1" /\ i.calls[3].param.UserDst = "u3"
        /\ master # None /\ Get(master).Owner = "u3"

\* ---------------------------------------------------------------------
\* the remote calls of info, in their order
InfoOrder == <<"GetVolumeSimpleInfo", "GetMetaPartitions", "GetDataPartitions">>
\* the position of api in InfoOrder
InfoRank(api) == CHOOSE n \in 1..Len(InfoOrder) : InfoOrder[n] = api

\* C21. Info fetches the summary exactly once per invocation, first, then
\* the metadata-partition list if and only if asked for, then the
\* data-partition list if and only if asked for, each at most once; a
\* failed metadata-partition fetch ends the process with status 1 and no
\* data-partition fetch; the summary is written only after a successful
\* fetch, from the snapshot fetched.
C21_InfoOrder ==
    \A p \in Running("info") :
        LET i == inv[p]
            over == i.pc \in {"done", "exit", "panic"}
        IN
        /\ \A k \in 1..Len(i.calls) :
              /\ i.calls[k].api \in {InfoOrder[n] : n \in 1..Len(InfoOrder)}
              /\ \A j \in 1..(k - 1) :
                    /\ InfoRank(i.calls[j].api) < InfoRank(i.calls[k].api)
                    /\ i.calls[j].ok
        /\ i.pc # "start" => Cardinality(IdxOf(i, "GetVolumeSimpleInfo")) = 1
        /\ Issued(i, "GetMetaPartitions") => i.opt.optMetaDetail
        /\ Issued(i, "GetDataPartitions") => i.opt.optDataDetail
        /\ (i.pc = "done" /\ i.opt.optMetaDetail) => Issued(i, "GetMetaPartitions")
        /\ (i.pc = "done" /\ i.opt.optDataDetail) => Issued(i, "GetDataPartitions")
        /\ \A k \in IdxOf(i, "GetMetaPartitions") :
              ~i.calls[k].ok =>
                  /\ i.pc = "exit" /\ i.exitCode = 1
                  /\ ~Issued(i, "GetDataPartitions")
                  /\ Says(i, "stderr", "Get volume metadata detail information failed")
        /\ Says(i, "stdout", "Summary:") =>
              /\ i.calls[1].api = "GetVolumeSimpleInfo" /\ i.calls[1].ok
              /\ i.vv # None /\ i.vv = i.fetched
        /\ (over /\ i.exitCode = 0) => i.pc = "done"

\* both lists asked for, the metadata-partition fetch has failed after the
\* summary was written: the process is over with status 1, two calls issued
C21_Witness ==
    \E p \in Running("info") :
        LET i == inv[p] IN
        /\ i.opt.optMetaDetail /\ i.opt.optDataDetail
        /\ Len(i.calls) = 2 /\ i.calls[1].ok /\ ~i.calls[2].ok
        /\ i.pc = "exit" /\ i.exitCode = 1
        /\ Says(i, "stdout", "Summary:")

\* ---------------------------------------------------------------------
\* C22. Every panic, of the main goroutine (Start and Sync included) or of
\* the goroutine of interceptSignal in Shutdown, is caught exactly once by
\* the deferred function of main, which logs it and flushes the log before
\* raising it again: a process ended by a panic (status 2) has recovered
\* once, its last log entry is the detail of the panic, and the log has
\* been flushed; no process recovers more than once or ends a panic with
\* status 0.
C22_PanicBarrier ==
    /\ recovered <= 1
    /\ recovered = 1 => (exited /\ exitCode # 0)
    /\ (exited /\ exitCode = 2) =>
          /\ recovered = 1
          /\ flushed >= 1
          /\ log # <<>>
          /\ log[Len(log)] \in {<<"action[main] process panic detail", r>> :
                                 r \in {"Error Setting Rlimit", "Start", "Sync"}}

====
